---- MODULE Spec2Model ----
(***************************************************************************)
(* Model of polymarket_monitor.py: PolymarketArbitrageMonitor, its durable *)
(* CSV log, its optional Google Sheets mirror and the polling loop of      *)
(* monitor_markets.                                                        *)
(*                                                                         *)
(* Numbers.  A price is a decimal with five fractional digits, held as an  *)
(* integer count of 1e-5 (Scale = 1.0).  Python computes with IEEE-754     *)
(* doubles, so a computed value is a pair [u, d]: u the decimal value the  *)
(* double stands for and d the sign of (the double - the double nearest to *)
(* that decimal).  The rounding of yes_price + no_price on the price       *)
(* domain is tabulated from IEEE-754 in SumBelow / SumAbove, the direction *)
(* in which '.4f' resolves a decimal tie in SumTieUp / GapTieUp.           *)
(***************************************************************************)
EXTENDS Integers, Sequences, FiniteSets, TLC

VARIABLES
    config,            \* self.config: markets, thresholds and use_google_sheets
    GSHEETS_AVAILABLE, \* module flag set by the import of gspread
    csvExists,         \* Path(self.csv_file).exists()
    csv,               \* rows of the CSV file, in file order
    sheetExists,       \* the remote spreadsheet exists
    sheet,             \* rows of the remote worksheet
    gsheet,            \* self.gsheet: "None" or "Worksheet"
    pc,                \* position of the process
    iteration,         \* local variable iteration of monitor_markets
    mi,                \* index of the for-loop over config['markets']
    fetched,           \* (yes_price, no_price) of the current market, or NoPrices
    row,               \* row prepared by record_data for the current market
    out,               \* lines printed by this process
    now,               \* the UTC clock, in seconds
    run,               \* number of process starts so far
    accepted,          \* history: every record the CSV append accepted, over all runs
    attempts,          \* history: append_row calls on the mirror in this run
    csvBase,           \* history: number of rows of the CSV file when this run started
    sheetBase,         \* history: number of rows of the worksheet when this run started
    tickFetch,         \* history: fetch outcome per market of the current tick
    fetches            \* history: number of fetch_market_prices calls, over all runs

vars == <<config, GSHEETS_AVAILABLE, csvExists, csv, sheetExists, sheet, gsheet, pc,
          iteration, mi, fetched, row, out, now, run, accepted, attempts, csvBase,
          sheetBase, tickFetch, fetches>>

(***************************************************************************)
(* Bounds of the exploration.                                              *)
(***************************************************************************)
\* process starts plus fetch_market_prices calls explored in one behaviour
MaxEvents == 5

(***************************************************************************)
(* Configuration (load_config).                                            *)
(***************************************************************************)
Scale == 100000

PollingInterval == 5

MarketA == [id |-> "market_id_1", name |-> "A"]

MarketB == [id |-> "market_id_2", name |-> "B"]

MarketC == [id |-> "market_id_3", name |-> "C"]

MarketLists == {<<MarketA>>, <<MarketA, MarketB, MarketC>>}

DefaultThresholds == [primary |-> 100000, secondary |-> 95000, tertiary |-> 90000]

EvalThresholds ==
    {DefaultThresholds,
     [primary |-> 90000, secondary |-> 95000, tertiary |-> 100000],
     [primary |-> 95000, secondary |-> 95000, tertiary |-> 95000],
     [primary |-> 150000, secondary |-> 0, tertiary |-> -10000],
     [primary |-> 50000, secondary |-> 100000, tertiary |-> 90000]}

(***************************************************************************)
(* Prices.                                                                 *)
(***************************************************************************)
EvalPrices == {-10000, 0, 12377, 23248, 40030, 49970, 45000, 46000, 50000, 50004, 51000, 120000}

\* the pairs the fetcher returns in the polling loop; a subset of EvalPrices x EvalPrices,
\* the domain on which the IEEE-754 tables below are computed
FetchPairs == {<<46000, 50000>>, <<51000, 51000>>}

NoPrices == <<>>

\* pairs whose double sum lies below / above the double nearest to the decimal sum
SumBelow ==
    {<<-10000, 49970>>, <<-10000, 120000>>, <<23248, 49970>>, <<40030, 49970>>,
     <<40030, 120000>>, <<49970, -10000>>, <<49970, 23248>>, <<49970, 40030>>,
     <<120000, -10000>>, <<120000, 40030>>}

SumAbove ==
    {<<-10000, 50004>>, <<-10000, 51000>>, <<12377, 50004>>, <<12377, 51000>>,
     <<23248, 50004>>, <<40030, 45000>>, <<40030, 46000>>, <<49970, 50004>>,
     <<45000, 40030>>, <<46000, 40030>>, <<50004, -10000>>, <<50004, 12377>>,
     <<50004, 23248>>, <<50004, 49970>>, <<51000, -10000>>, <<51000, 12377>>}

\* pairs whose sum / gap is a decimal tie at four digits that '.4f' rounds upwards
SumTieUp == {<<12377, 23248>>, <<23248, 12377>>}

GapTieUp == {<<12377, 23248>>, <<23248, 12377>>}

\* price_sum = yes_price + no_price
FloatAdd(y, n) ==
    [u |-> y + n,
     d |-> IF <<y, n>> \in SumBelow THEN -1 ELSE IF <<y, n>> \in SumAbove THEN 1 ELSE 0]

\* mutant of FloatLess: the comparison written <= instead of <
FloatLessOrEqual(s, t) == s.u <= t

\* price_sum < thresholds[k], the threshold being the double nearest to its decimal
FloatLess(s, t) == s.u < t \/ (s.u = t /\ s.d < 0)

\* format(value, '.4f'): the sign and the digits, in units of 1e-4
Fmt4(u, negative, tieUp) ==
    LET lo == u \div 10
        r  == u % 10
        q  == IF r > 5 \/ (r = 5 /\ tieUp) THEN lo + 1 ELSE lo
    IN  [neg |-> negative, mag |-> IF q < 0 THEN -q ELSE q]

FmtPrice(p) == Fmt4(p, p < 0, FALSE)

FmtSum(y, n) ==
    LET s == FloatAdd(y, n)
    IN  Fmt4(s.u, s.u < 0 \/ (s.u = 0 /\ s.d < 0), <<y, n>> \in SumTieUp)

\* gap = 1.00 - price_sum is negative exactly when 1.00 < price_sum
FmtGap(y, n) ==
    LET s == FloatAdd(y, n)
    IN  Fmt4(Scale - s.u, s.u > Scale \/ (s.u = Scale /\ s.d > 0), <<y, n>> \in GapTieUp)

YesNo(b) == IF b THEN "YES" ELSE "NO"

Header ==
    [cols |-> <<"Timestamp_UTC", "Market_ID", "Market_Name", "YES_Price", "NO_Price",
                "Sum", "Gap_From_One", "Below_1.00", "Below_0.95", "Below_0.90">>]

\* the list row of record_data
MakeRow(timestamp, market, y, n, thresholds) ==
    LET price_sum == FloatAdd(y, n)
    IN  [Timestamp_UTC |-> timestamp,
         Market_ID     |-> market.id,
         Market_Name   |-> market.name,
         YES_Price     |-> FmtPrice(y),
         NO_Price      |-> FmtPrice(n),
         Sum           |-> FmtSum(y, n),
         Gap_From_One  |-> FmtGap(y, n),
         Below_1_00    |-> YesNo(FloatLess(price_sum, thresholds.primary)),
         Below_0_95    |-> YesNo(FloatLess(price_sum, thresholds.secondary)),
         Below_0_90    |-> YesNo(FloatLess(price_sum, thresholds.tertiary))]

NoRow == [cols |-> <<>>]

(***************************************************************************)
(* The state before the first process start: no CSV file, no spreadsheet.  *)
(***************************************************************************)
Init ==
    /\ config \in [markets : MarketLists, thresholds : {DefaultThresholds},
                  use_google_sheets : BOOLEAN]
    /\ GSHEETS_AVAILABLE \in BOOLEAN
    /\ csvExists = FALSE
    /\ csv = <<>>
    /\ sheetExists = FALSE
    /\ sheet = <<>>
    /\ gsheet = "None"
    /\ pc = "NotStarted"
    /\ iteration = 0
    /\ mi = 0
    /\ fetched = NoPrices
    /\ row = NoRow
    /\ out = <<>>
    /\ now = 0
    /\ run = 0
    /\ accepted = <<>>
    /\ attempts = <<>>
    /\ csvBase = 0
    /\ sheetBase = 0
    /\ tickFetch = <<>>
    /\ fetches = 0

(***************************************************************************)
(* setup_csv: the file is written, with the header, only when absent.      *)
(***************************************************************************)
\* mutant of SetupCsvRows: the file is opened with 'w' whether or not it exists
SetupCsvRowsTruncating(exists, rows) == <<Header>>

\* mutant of SetupCsvRows: the header is appended at every start
SetupCsvRowsRepeatingHeader(exists, rows) == Append(rows, Header)

SetupCsvRows(exists, rows) == IF ~exists THEN <<Header>> ELSE rows

(***************************************************************************)
(* setup_google_sheets: the worksheet after a successful setup, the header *)
(* being appended when row 1 is empty.                                     *)
(***************************************************************************)
SetupSheetRows(rows) == IF rows = <<>> THEN <<Header>> ELSE rows

\* mutant of SetupGsheet: the worksheet handle is kept when the header write raised
SetupGsheetKeepsHandle(outcome) == IF outcome = "authorize_failed" THEN "None" ELSE "Worksheet"

\* self.gsheet after setup_google_sheets: None whenever anything raised
SetupGsheet(outcome) == IF outcome = "ok" THEN "Worksheet" ELSE "None"

SetupOutcomes == {"ok", "authorize_failed", "provision_failed"}

\* the fresh locals of a process that has just been started
FreshProcess ==
    /\ iteration' = 0
    /\ mi' = 0
    /\ fetched' = NoPrices
    /\ row' = NoRow
    /\ attempts' = <<>>
    /\ tickFetch' = <<>>
    /\ run' = run + 1
    /\ UNCHANGED <<config, GSHEETS_AVAILABLE, now, accepted, fetches>>

(***************************************************************************)
(* main(): PolymarketArbitrageMonitor('config.json') followed by the entry *)
(* into monitor_markets.  Also a restart after the process has ended.      *)
(***************************************************************************)
Start ==
    /\ pc \in {"NotStarted", "Stopped", "Crashed"}
    /\ run + fetches < MaxEvents
    /\ FreshProcess
    /\ csvExists' = TRUE
    /\ csv' = SetupCsvRows(csvExists, csv)
    /\ csvBase' = Len(csv')
    /\ IF GSHEETS_AVAILABLE /\ config.use_google_sheets
       THEN \E outcome \in SetupOutcomes :
              /\ gsheet' = SetupGsheet(outcome)
              /\ sheetExists' = (sheetExists \/ outcome # "authorize_failed")
              /\ sheet' = IF outcome = "ok" THEN SetupSheetRows(sheet) ELSE sheet
              /\ out' = (IF csvExists THEN <<>> ELSE <<[kind |-> "created_csv"]>>)
                        \o <<[kind |-> IF outcome = "ok" THEN "connected" ELSE "setup_failed"]>>
       ELSE /\ gsheet' = "None"
            /\ UNCHANGED <<sheetExists, sheet>>
            /\ out' = IF csvExists THEN <<>> ELSE <<[kind |-> "created_csv"]>>
    /\ sheetBase' = Len(sheet')
    /\ pc' = "Tick"

\* setup_csv cannot open the file for writing: __init__ raises and the process ends
StartOpenFails ==
    /\ pc \in {"NotStarted", "Stopped", "Crashed"}
    /\ run + fetches < MaxEvents
    /\ ~csvExists
    /\ FreshProcess
    /\ gsheet' = "None"
    /\ out' = <<>>
    /\ csvBase' = Len(csv)
    /\ sheetBase' = Len(sheet)
    /\ pc' = "Crashed"
    /\ UNCHANGED <<csvExists, csv, sheetExists, sheet>>

(***************************************************************************)
(* monitor_markets: top of the while loop.                                 *)
(***************************************************************************)
\* mutant of Tick: iteration = 1 before the loop, so that the first tick is numbered 2
TickStartsAtTwo ==
    /\ pc = "Tick"
    /\ iteration' = IF iteration = 0 THEN 2 ELSE iteration + 1
    /\ out' = Append(out, [kind |-> "iteration", iteration |-> iteration'])
    /\ mi' = 1
    /\ tickFetch' = <<>>
    /\ pc' = IF Len(config.markets) = 0 THEN "Sleep" ELSE "Fetch"
    /\ UNCHANGED <<config, GSHEETS_AVAILABLE, csvExists, csv, sheetExists, sheet, gsheet,
                   fetched, row, now, run, accepted, attempts, csvBase, sheetBase, fetches>>

Tick ==
    /\ pc = "Tick"
    /\ iteration' = iteration + 1
    /\ out' = Append(out, [kind |-> "iteration", iteration |-> iteration + 1])
    /\ mi' = 1
    /\ tickFetch' = <<>>
    /\ pc' = IF Len(config.markets) = 0 THEN "Sleep" ELSE "Fetch"
    /\ UNCHANGED <<config, GSHEETS_AVAILABLE, csvExists, csv, sheetExists, sheet, gsheet,
                   fetched, row, now, run, accepted, attempts, csvBase, sheetBase, fetches>>

\* fetch_market_prices returns a pair: the loop enters record_data
FetchOk ==
    /\ pc = "Fetch"
    /\ run + fetches < MaxEvents
    /\ \E p \in FetchPairs : fetched' = p
    /\ tickFetch' = Append(tickFetch, "ok")
    /\ fetches' = fetches + 1
    /\ pc' = "Write"
    /\ UNCHANGED <<config, GSHEETS_AVAILABLE, csvExists, csv, sheetExists, sheet, gsheet,
                   iteration, mi, row, out, now, run, accepted, attempts, csvBase, sheetBase>>

\* mutant of AfterFetchError: a failed fetch breaks out of the for loop
AfterFetchErrorEndsTick == "Sleep"

\* where the loop goes after fetch_market_prices returned (None, None)
AfterFetchError == "Status"

\* mutant of FetchFail: a failed fetch leaves a row without prices in the CSV file
FetchFailWritesRow ==
    /\ pc = "Fetch"
    /\ run + fetches < MaxEvents
    /\ fetched' = NoPrices
    /\ out' = Append(out, [kind |-> "fetch_error", market |-> config.markets[mi].name])
    /\ tickFetch' = Append(tickFetch, "fail")
    /\ fetches' = fetches + 1
    /\ csv' = Append(csv, NoRow)
    /\ pc' = "Status"
    /\ UNCHANGED <<config, GSHEETS_AVAILABLE, csvExists, sheetExists, sheet, gsheet,
                   iteration, mi, row, now, run, accepted, attempts, csvBase, sheetBase>>

\* fetch_market_prices catches an exception, prints it and returns (None, None)
FetchFail ==
    /\ pc = "Fetch"
    /\ run + fetches < MaxEvents
    /\ fetched' = NoPrices
    /\ out' = Append(out, [kind |-> "fetch_error", market |-> config.markets[mi].name])
    /\ tickFetch' = Append(tickFetch, "fail")
    /\ fetches' = fetches + 1
    /\ pc' = AfterFetchError
    /\ UNCHANGED <<config, GSHEETS_AVAILABLE, csvExists, csv, sheetExists, sheet, gsheet,
                   iteration, mi, row, now, run, accepted, attempts, csvBase, sheetBase>>

(***************************************************************************)
(* record_data, first half: the row is built and appended to the CSV file. *)
(***************************************************************************)
\* mutant of AppendCsv: the new row is written right after the header
AppendCsvAfterHeader(rows, r) == <<rows[1], r>> \o Tail(rows)

AppendCsv(rows, r) == Append(rows, r)

WriteCsv ==
    /\ pc = "Write"
    /\ row' = MakeRow(now, config.markets[mi], fetched[1], fetched[2], config.thresholds)
    /\ csv' = AppendCsv(csv, row')
    /\ accepted' = Append(accepted, [row |-> row', yes |-> fetched[1], no |-> fetched[2],
                                     run |-> run, tick |-> iteration, mi |-> mi])
    /\ pc' = "Mirror"
    /\ UNCHANGED <<config, GSHEETS_AVAILABLE, csvExists, sheetExists, sheet, gsheet,
                   iteration, mi, fetched, out, now, run, attempts, csvBase, sheetBase,
                   tickFetch, fetches>>

\* where the process is after open(self.csv_file, 'a') raised: nothing in
\* record_data or monitor_markets catches it
AfterCsvError == "Crashed"

WriteCsvFails ==
    /\ pc = "Write"
    /\ row' = MakeRow(now, config.markets[mi], fetched[1], fetched[2], config.thresholds)
    /\ pc' = AfterCsvError
    /\ UNCHANGED <<config, GSHEETS_AVAILABLE, csvExists, csv, sheetExists, sheet, gsheet,
                   iteration, mi, fetched, out, now, run, accepted, attempts, csvBase,
                   sheetBase, tickFetch, fetches>>

(***************************************************************************)
(* record_data, second half: the mirror, the alert, the returned gap.      *)
(***************************************************************************)
MirrorSkip ==
    /\ pc = "Mirror"
    /\ gsheet = "None"
    /\ pc' = "Alert"
    /\ UNCHANGED <<config, GSHEETS_AVAILABLE, csvExists, csv, sheetExists, sheet, gsheet,
                   iteration, mi, fetched, row, out, now, run, accepted, attempts, csvBase,
                   sheetBase, tickFetch, fetches>>

\* mutant of MirrorRow: the mirror gets a row whose gap is price_sum - 1.00
MirrorRowUnsignedGap(r) == [r EXCEPT !.Gap_From_One.neg = ~@]

\* the list handed to self.gsheet.append_row: the row written to the CSV file
MirrorRow(r) == r

MirrorOk ==
    /\ pc = "Mirror"
    /\ gsheet # "None"
    /\ sheet' = Append(sheet, MirrorRow(row))
    /\ attempts' = Append(attempts, [row |-> MirrorRow(row), ok |-> TRUE])
    /\ pc' = "Alert"
    /\ UNCHANGED <<config, GSHEETS_AVAILABLE, csvExists, csv, sheetExists, gsheet,
                   iteration, mi, fetched, row, out, now, run, accepted, csvBase,
                   sheetBase, tickFetch, fetches>>

\* mutant of MirrorErrorCsv: the CSV row is taken back when the mirror append raised
MirrorErrorCsvRollsBack(rows) == SubSeq(rows, 1, Len(rows) - 1)

\* mutant of MirrorErrorGsheet: a failed append switches the mirror off
MirrorErrorGsheetDisables(g) == "None"

\* what the except clause around append_row leaves: the CSV rows, self.gsheet, the position
MirrorErrorCsv(rows) == rows

MirrorErrorGsheet(g) == g

\* mutant of MirrorErrorPc: record_data returns from the except clause, before the alert
MirrorErrorSkipsAlert == "Status"

MirrorErrorPc == "Alert"

MirrorFails ==
    /\ pc = "Mirror"
    /\ gsheet # "None"
    /\ attempts' = Append(attempts, [row |-> MirrorRow(row), ok |-> FALSE])
    /\ out' = Append(out, [kind |-> "mirror_error"])
    /\ csv' = MirrorErrorCsv(csv)
    /\ gsheet' = MirrorErrorGsheet(gsheet)
    /\ pc' = MirrorErrorPc
    /\ UNCHANGED <<config, GSHEETS_AVAILABLE, csvExists, sheetExists, sheet,
                   iteration, mi, fetched, row, now, run, accepted, csvBase,
                   sheetBase, tickFetch, fetches>>

\* mutant of Alert: the alert is printed for sums below the tertiary threshold
AlertBelowTertiary ==
    /\ pc = "Alert"
    /\ out' = IF FloatLess(FloatAdd(fetched[1], fetched[2]), config.thresholds.tertiary)
              THEN Append(out, [kind |-> "alert", market |-> config.markets[mi].name,
                                sum |-> FmtSum(fetched[1], fetched[2]),
                                gap |-> FmtGap(fetched[1], fetched[2])])
              ELSE out
    /\ pc' = "Status"
    /\ UNCHANGED <<config, GSHEETS_AVAILABLE, csvExists, csv, sheetExists, sheet, gsheet,
                   iteration, mi, fetched, row, now, run, accepted, attempts, csvBase,
                   sheetBase, tickFetch, fetches>>

Alert ==
    /\ pc = "Alert"
    /\ out' = IF FloatLess(FloatAdd(fetched[1], fetched[2]), config.thresholds.primary)
              THEN Append(out, [kind |-> "alert", market |-> config.markets[mi].name,
                                sum |-> FmtSum(fetched[1], fetched[2]),
                                gap |-> FmtGap(fetched[1], fetched[2])])
              ELSE out
    /\ pc' = "Status"
    /\ UNCHANGED <<config, GSHEETS_AVAILABLE, csvExists, csv, sheetExists, sheet, gsheet,
                   iteration, mi, fetched, row, now, run, accepted, attempts, csvBase,
                   sheetBase, tickFetch, fetches>>

(***************************************************************************)
(* monitor_markets: the status line of the market, then the next market or *)
(* the end of the for loop.                                                *)
(***************************************************************************)
Status ==
    /\ pc = "Status"
    /\ out' = Append(out,
                IF fetched # NoPrices
                THEN [kind |-> "status_ok", market |-> config.markets[mi].name,
                      sum |-> FmtSum(fetched[1], fetched[2]),
                      gap |-> FmtGap(fetched[1], fetched[2])]
                ELSE [kind |-> "status_failed", market |-> config.markets[mi].name])
    /\ IF mi < Len(config.markets)
       THEN mi' = mi + 1 /\ pc' = "Fetch"
       ELSE mi' = mi /\ pc' = "Sleep"
    /\ UNCHANGED <<config, GSHEETS_AVAILABLE, csvExists, csv, sheetExists, sheet, gsheet,
                   iteration, fetched, row, now, run, accepted, attempts, csvBase,
                   sheetBase, tickFetch, fetches>>

\* time.sleep(polling_interval_seconds), then back to the top of the loop
Sleep ==
    /\ pc = "Sleep"
    /\ now' = now + PollingInterval
    /\ pc' = "Tick"
    /\ UNCHANGED <<config, GSHEETS_AVAILABLE, csvExists, csv, sheetExists, sheet, gsheet,
                   iteration, mi, fetched, row, out, run, accepted, attempts, csvBase,
                   sheetBase, tickFetch, fetches>>

\* the positions inside the try block of monitor_markets
LoopPcs == {"Tick", "Fetch", "Write", "Mirror", "Alert", "Status", "Sleep"}

\* Ctrl+C: KeyboardInterrupt is raised wherever the loop is and caught outside it
KeyboardInterrupt ==
    /\ pc \in LoopPcs
    /\ out' = Append(out, [kind |-> "stopped"])
    /\ pc' = "Stopped"
    /\ UNCHANGED <<config, GSHEETS_AVAILABLE, csvExists, csv, sheetExists, sheet, gsheet,
                   iteration, mi, fetched, row, now, run, accepted, attempts, csvBase,
                   sheetBase, tickFetch, fetches>>

Next ==
    \/ Start
    \/ StartOpenFails
    \/ Tick
    \/ FetchOk
    \/ FetchFail
    \/ WriteCsv
    \/ WriteCsvFails
    \/ MirrorSkip
    \/ MirrorOk
    \/ MirrorFails
    \/ Alert
    \/ Status
    \/ Sleep
    \/ KeyboardInterrupt

Spec == Init /\ [][Next]_vars

(***************************************************************************)
(* The gap evaluation of record_data on its own: thresholds and price      *)
(* pairs drawn from EvalThresholds and EvalPrices, the row built for each. *)
(***************************************************************************)
InitEval ==
    /\ config \in [markets : {<<MarketA>>}, thresholds : EvalThresholds,
                   use_google_sheets : {FALSE}]
    /\ GSHEETS_AVAILABLE = FALSE
    /\ csvExists = FALSE
    /\ csv = <<>>
    /\ sheetExists = FALSE
    /\ sheet = <<>>
    /\ gsheet = "None"
    /\ pc = "Eval"
    /\ iteration = 0
    /\ mi = 1
    /\ fetched = NoPrices
    /\ row = NoRow
    /\ out = <<>>
    /\ now = 0
    /\ run = 0
    /\ accepted = <<>>
    /\ attempts = <<>>
    /\ csvBase = 0
    /\ sheetBase = 0
    /\ tickFetch = <<>>
    /\ fetches = 0

Evaluate ==
    /\ pc = "Eval"
    /\ \E y \in EvalPrices, n \in EvalPrices :
         /\ fetched' = <<y, n>>
         /\ row' = MakeRow(now, config.markets[mi], y, n, config.thresholds)
    /\ UNCHANGED <<config, GSHEETS_AVAILABLE, csvExists, csv, sheetExists, sheet, gsheet, pc,
                   iteration, mi, out, now, run, accepted, attempts, csvBase, sheetBase,
                   tickFetch, fetches>>

NextEval == Evaluate

SpecEval == InitEval /\ [][NextEval]_vars

(***************************************************************************)
(* Vocabulary of the properties.                                           *)
(***************************************************************************)
\* rows appended to the CSV file by the running process
RunRows == SubSeq(csv, csvBase + 1, Len(csv))

\* rows appended to the worksheet by the running process, its header apart
RunMirrorRows == SubSeq(sheet, sheetBase + 1, Len(sheet))

AcceptedRows == [i \in 1..Len(accepted) |-> accepted[i].row]

Printed(kind) == \E i \in 1..Len(out) : out[i].kind = kind

Count(kind) == Cardinality({i \in 1..Len(out) : out[i].kind = kind})

IsPrefix(a, b) == Len(a) <= Len(b) /\ SubSeq(b, 1, Len(a)) = a

RECURSIVE IsSubsequence(_, _)
IsSubsequence(a, b) ==
    IF a = <<>> THEN TRUE
    ELSE IF b = <<>> THEN FALSE
    ELSE IF Head(a) = Head(b) THEN IsSubsequence(Tail(a), Tail(b))
    ELSE IsSubsequence(a, Tail(b))

\* positions at which the row of the current market has been written
PastWrite == {"Mirror", "Alert", "Status", "Sleep", "Tick"}

\* the CSV positions holding the record of market j of the current tick of this run
RecordsOf(j) ==
    {i \in 1..Len(accepted) :
        /\ accepted[i].run = run /\ accepted[i].tick = iteration /\ accepted[i].mi = j
        /\ i + 1 <= Len(csv)
        /\ csv[i + 1] = accepted[i].row
        /\ csv[i + 1].Market_ID = config.markets[j].id}

Signed(f) == IF f.neg THEN -f.mag ELSE f.mag

(***************************************************************************)
(* C1.  Fault isolation within a tick: a failed fetch appends nothing and  *)
(* moves on to the status line of that market; every market of the tick    *)
(* whose fetch succeeded and whose write has been passed has exactly one   *)
(* row in the CSV file; the for loop ends only after all configured        *)
(* markets; a crash never follows a failed fetch; the sleep is followed by *)
(* the next tick, numbered one higher, starting at the first market.       *)
(***************************************************************************)
C1_TickState ==
    /\ \A j \in 1..Len(tickFetch) :
         /\ (tickFetch[j] = "ok" /\ (j < mi \/ pc \in PastWrite))
               => Cardinality(RecordsOf(j)) = 1
         /\ tickFetch[j] = "fail"
               => \A i \in 1..Len(accepted) :
                     ~(accepted[i].run = run /\ accepted[i].tick = iteration
                       /\ accepted[i].mi = j)
    /\ (pc = "Sleep" \/ (pc = "Tick" /\ iteration > 0))
          => Len(tickFetch) = Len(config.markets)
    /\ (pc = "Crashed" /\ iteration > 0) => tickFetch[Len(tickFetch)] = "ok"

C1_TickStep ==
    /\ (pc = "Fetch" /\ tickFetch' = Append(tickFetch, "fail"))
          => (pc' = "Status" /\ csv' = csv /\ sheet' = sheet /\ mi' = mi)
    /\ (pc = "Status" /\ pc' \notin {"Status", "Stopped"})
          => IF mi < Len(config.markets)
             THEN pc' = "Fetch" /\ mi' = mi + 1 /\ iteration' = iteration
             ELSE pc' = "Sleep"
    /\ (pc = "Sleep" /\ pc' \notin {"Sleep", "Stopped"}) => pc' = "Tick"
    /\ (pc = "Tick" /\ pc' \notin {"Tick", "Stopped"})
          => (pc' = "Fetch" /\ iteration' = iteration + 1 /\ mi' = 1)

\* C1: fetch failures of some markets never keep the others from being recorded, nor
\* the tick from reaching its end and the next tick from starting after the sleep
C1_FaultIsolation == [](C1_TickState) /\ [][C1_TickStep]_vars

\* tick 1 over A, B, C with the fetch of B failed and rows for A and C, tick 2 begun
C1_Witness ==
    /\ Len(config.markets) = 3
    /\ iteration = 2
    /\ pc = "Fetch"
    /\ \E i \in 1..Len(out) : out[i].kind = "fetch_error" /\ out[i].market = "B"
    /\ Len(RunRows) = 2
    /\ RunRows[1].Market_Name = "A"
    /\ RunRows[2].Market_Name = "C"

(***************************************************************************)
(* C2.  Mirror isolation: every row handed to the mirror, accepted or not, *)
(* is the row already at the same position among the rows this run wrote   *)
(* to the CSV file, and right after a failed mirror append the process is  *)
(* at the alert or status step of the same record, its row the last of the *)
(* CSV file, the mirror still enabled.                                     *)
(***************************************************************************)
C2_MirrorIsolation ==
    /\ \A i \in 1..Len(attempts) :
         /\ i <= Len(RunRows)
         /\ RunRows[i] = attempts[i].row
    /\ (Len(out) > 0 /\ out[Len(out)].kind = "mirror_error")
          => /\ pc \in {"Alert", "Status"}
             /\ gsheet = "Worksheet"
             /\ Len(RunRows) = Len(attempts)
             /\ csv[Len(csv)] = row

\* two records in the CSV file, the mirror append of both failed, the tick continues
C2_Witness ==
    /\ Len(attempts) = 2
    /\ \A i \in 1..Len(attempts) : ~attempts[i].ok
    /\ Len(RunRows) = 2
    /\ RunMirrorRows = <<>>
    /\ pc = "Status"

(***************************************************************************)
(* C3.  A failed CSV append never terminates the scheduler: once the loop  *)
(* has started, the process never ends by an uncaught exception.           *)
(***************************************************************************)
C3_DurableFailureContained == pc = "Crashed" => iteration = 0

(***************************************************************************)
(* C4.  The CSV file is append-only: every step leaves the previous rows   *)
(* as a prefix, the file is the header followed by exactly the accepted    *)
(* rows in the order of their acceptance, over all runs.                   *)
(***************************************************************************)
C4_RoundTrip ==
    /\ csvExists => csv = <<Header>> \o AcceptedRows
    /\ ~csvExists => csv = <<>>

\* C4: the CSV file only grows at its end and reads back as the accepted records in order
C4_AppendOnly == [](C4_RoundTrip) /\ [][IsPrefix(csv, csv')]_vars

\* a second process start found rows of the first and has appended its own
C4_Witness ==
    /\ run = 2
    /\ csvBase >= 2
    /\ Len(csv) > csvBase
    /\ Len(accepted) = Len(csv) - 1

(***************************************************************************)
(* C5.  Header invariant: an existing CSV file starts with the header row  *)
(* and holds no other header row.                                          *)
(***************************************************************************)
C5_HeaderInvariant ==
    csvExists =>
        /\ Len(csv) >= 1
        /\ csv[1] = Header
        /\ \A i \in 2..Len(csv) : csv[i] # Header

\* the monitor was constructed twice, with appends before and after the second time
C5_Witness ==
    /\ run = 2
    /\ pc = "Sleep"
    /\ csvBase > 1
    /\ Len(RunRows) >= 1
    /\ csv[1] = Header

(***************************************************************************)
(* C6.  Gap evaluation: the recorded gap is 1.00 - (y + n) rounded to four *)
(* digits and each threshold column is YES exactly when y + n, as the      *)
(* doubles add up, is below that threshold, each level on its own.         *)
(***************************************************************************)
BelowAsClaimed(y, n, t) ==
    YesNo(y + n < t \/ (y + n = t /\ FloatAdd(y, n).d < 0))

C6_GapEvaluation ==
    row # NoRow =>
        LET y == fetched[1]
            n == fetched[2]
            g == Scale - (y + n)
        IN  /\ g % 10 # 5 => Signed(row.Gap_From_One) = (g + 5) \div 10
            /\ g % 10 = 5 => Signed(row.Gap_From_One) \in {g \div 10, g \div 10 + 1}
            /\ row.Gap_From_One.neg => g <= 0
            /\ row.Below_1_00 = BelowAsClaimed(y, n, config.thresholds.primary)
            /\ row.Below_0_95 = BelowAsClaimed(y, n, config.thresholds.secondary)
            /\ row.Below_0_90 = BelowAsClaimed(y, n, config.thresholds.tertiary)
            /\ (config.thresholds = DefaultThresholds /\ fetched = <<46000, 50000>>)
                  => /\ row.Sum = [neg |-> FALSE, mag |-> 9600]
                     /\ row.Gap_From_One = [neg |-> FALSE, mag |-> 400]
                     /\ <<row.Below_1_00, row.Below_0_95, row.Below_0_90>>
                           = <<"YES", "NO", "NO">>
            /\ (config.thresholds = DefaultThresholds /\ fetched = <<51000, 51000>>)
                  => /\ row.Sum = [neg |-> FALSE, mag |-> 10200]
                     /\ row.Gap_From_One = [neg |-> TRUE, mag |-> 200]
                     /\ <<row.Below_1_00, row.Below_0_95, row.Below_0_90>>
                           = <<"NO", "NO", "NO">>

\* thresholds that are not decreasing: only the middle level is met, the others are not
C6_Witness ==
    /\ pc = "Eval"
    /\ config.thresholds = [primary |-> 50000, secondary |-> 100000, tertiary |-> 90000]
    /\ fetched = <<46000, 50000>>
    /\ <<row.Below_1_00, row.Below_0_95, row.Below_0_90>> = <<"NO", "YES", "NO">>

(***************************************************************************)
(* C7.  Cancellation only at a safe point: when the process has stopped on *)
(* Ctrl+C, every row this run wrote to the CSV file has been processed to  *)
(* its end, that is, has had its mirror attempt (mirror enabled) and its   *)
(* success status line.                                                    *)
(***************************************************************************)
C7_CancelOnlyAtSafePoint ==
    pc = "Stopped" =>
        /\ Count("status_ok") = Len(RunRows)
        /\ gsheet # "None" => Len(attempts) = Len(RunRows)

(***************************************************************************)
(* C8.  A mirror that could not be provisioned at startup is disabled for  *)
(* the run: the construction has succeeded (the loop is entered, not a     *)
(* crash at startup), self.gsheet is None, no append_row is ever called,   *)
(* the worksheet is left as it was, and the rows are in the CSV file.      *)
(***************************************************************************)
C8_MirrorDisabledAfterSetupFailure ==
    Printed("setup_failed") =>
        /\ gsheet = "None"
        /\ attempts = <<>>
        /\ RunMirrorRows = <<>>
        /\ ~Printed("mirror_error")
        /\ iteration = 0 => pc \in {"Tick", "Stopped"}
        /\ pc \in {"Alert", "Status"} /\ fetched # NoPrices
              => (Len(RunRows) >= 1 /\ csv[Len(csv)] = row)
        /\ Count("status_ok") <= Len(RunRows)

\* the setup failed after the worksheet was opened, and the run has recorded two rows
C8_Witness ==
    /\ Printed("setup_failed")
    /\ sheetExists
    /\ iteration >= 1
    /\ Len(RunRows) = 2
    /\ Count("status_ok") = 2

(***************************************************************************)
(* C9.  With the mirror provisioned, the k-th append_row call of the run   *)
(* is for the k-th row the run wrote to the CSV file (no retry, no row     *)
(* left out, failures included), every row whose mirror step has been      *)
(* passed has had its call, and self.gsheet stays enabled after failures.  *)
(***************************************************************************)
C9_MirrorOncePerRecord ==
    Printed("connected") =>
        /\ gsheet = "Worksheet"
        /\ \A i \in 1..Len(attempts) : i <= Len(RunRows) /\ attempts[i].row = RunRows[i]
        /\ pc \in {"Tick", "Fetch", "Write", "Alert", "Status", "Sleep", "Crashed"}
              => Len(attempts) = Len(RunRows)
        /\ pc = "Mirror" => Len(attempts) = Len(RunRows) - 1
        /\ pc = "Stopped" => Len(attempts) \in {Len(RunRows) - 1, Len(RunRows)}
        /\ Count("mirror_error") = Cardinality({i \in 1..Len(attempts) : ~attempts[i].ok})

\* the first mirror append failed and the next record was offered to the mirror all the same
C9_Witness ==
    /\ Printed("connected")
    /\ Len(attempts) = 2
    /\ ~attempts[1].ok
    /\ attempts[2].ok
    /\ attempts[1].row # attempts[2].row

(***************************************************************************)
(* C10.  The rows this run delivered to the mirror are a subsequence of    *)
(* the rows this run wrote to the CSV file, with the same content.         *)
(***************************************************************************)
C10_MirrorSubsequence ==
    /\ IsSubsequence(RunMirrorRows, RunRows)
    /\ sheet # <<>> => sheet[1] = Header
    /\ gsheet = "None" => RunMirrorRows = <<>>

\* three rows in the CSV file, the second of which did not reach the mirror
C10_Witness ==
    /\ Len(RunRows) = 3
    /\ Len(RunMirrorRows) = 2
    /\ RunMirrorRows[1] = RunRows[1]
    /\ RunMirrorRows[2] = RunRows[3]

(***************************************************************************)
(* C11.  A failed fetch leaves both sinks unchanged.  The fetches of the   *)
(* running process are those of its finished ticks and of the current one; *)
(* the successful ones are those that printed no fetch error.              *)
(***************************************************************************)
RunFetches ==
    IF iteration = 0 THEN 0
    ELSE (iteration - 1) * Len(config.markets) + Len(tickFetch)

SuccessfulFetches == RunFetches - Count("fetch_error")

C11_SinksState ==
    /\ pc \in {"Tick", "Fetch", "Mirror", "Alert", "Status", "Sleep"}
          => Len(RunRows) = SuccessfulFetches
    /\ Len(RunRows) <= SuccessfulFetches
    /\ Len(RunMirrorRows) <= SuccessfulFetches
    /\ (iteration >= 3 /\ SuccessfulFetches = 0)
          => (RunRows = <<>> /\ RunMirrorRows = <<>> /\ csv[1] = Header
              /\ (csvBase = 1 => csv = <<Header>>))

C11_FailedFetchStep ==
    (tickFetch' = Append(tickFetch, "fail") \/ (pc = "Status" /\ fetched = NoPrices))
        => (csv' = csv /\ sheet' = sheet /\ accepted' = accepted /\ attempts' = attempts)

\* C11: the fetch that fails and the status step after it append nothing to the CSV
\* file nor to the worksheet, the rows of the run are as many as its successful
\* fetches at every point between two records, and a run whose fetches all failed
\* through three ticks has left the CSV file with its header only
C11_FailedFetchLeavesSinks == [](C11_SinksState) /\ [][C11_FailedFetchStep]_vars

\* three ticks over one market, every fetch failed: the CSV file is the header alone
C11_Witness ==
    /\ iteration = 3
    /\ pc = "Sleep"
    /\ RunFetches = 3
    /\ Count("fetch_error") = 3
    /\ Count("status_failed") = 3
    /\ csv = <<Header>>
    /\ sheet \in {<<>>, <<Header>>}

(***************************************************************************)
(* C12.  One status entry per market and tick: when a tick has reached its *)
(* sleep, the run has printed one status line for every market of every    *)
(* tick, a success line for each row written, and for each failed fetch    *)
(* exactly one line reporting the failure.                                 *)
(***************************************************************************)
FailureEntries == Count("fetch_error") + Count("status_failed")

C12_OneStatusEntryPerMarket ==
    pc = "Sleep" =>
        /\ Count("status_ok") + Count("status_failed") = iteration * Len(config.markets)
        /\ Count("status_ok") = Len(RunRows)
        /\ FailureEntries = iteration * Len(config.markets) - Len(RunRows)

(***************************************************************************)
(* C13.  Alerting: the alert line is printed for a record exactly when the *)
(* Below_1.00 column of its row is YES, before the status line of the      *)
(* record and beside it; the step that prints it or not changes nothing    *)
(* but the output and goes to the status line either way.                  *)
(***************************************************************************)
AlertedRows == {i \in 1..Len(RunRows) : RunRows[i].Below_1_00 = "YES"}

AlertLine(r) ==
    [kind |-> "alert", market |-> r.Market_Name, sum |-> r.Sum, gap |-> r.Gap_From_One]

C13_AlertState ==
    /\ pc \in {"Tick", "Fetch", "Write", "Status", "Sleep", "Crashed"}
          => Count("alert") = Cardinality(AlertedRows)
    /\ pc \in {"Mirror", "Alert"}
          => Count("alert") = Cardinality(AlertedRows \ {Len(RunRows)})
    /\ (pc = "Status" /\ fetched # NoPrices)
          => (out[Len(out)].kind = "alert" <=> row.Below_1_00 = "YES")
    /\ Count("alert") <= Count("status_ok") + 1

C13_AlertStep ==
    /\ (pc = "Alert" /\ pc' # "Stopped")
          => /\ pc' = "Status"
             /\ out' = IF row.Below_1_00 = "YES" THEN Append(out, AlertLine(row)) ELSE out
             /\ UNCHANGED <<config, csvExists, csv, sheetExists, sheet, gsheet, iteration,
                            mi, fetched, row, now, run, accepted, attempts, tickFetch>>
    /\ (pc = "Status" /\ fetched # NoPrices /\ pc' # "Stopped")
          => /\ out'[Len(out')].kind = "status_ok"
             /\ Len(out') = Len(out) + 1
             /\ pc' = IF mi < Len(config.markets) THEN "Fetch" ELSE "Sleep"

\* C13: an alert for a record if and only if its primary-threshold column is YES,
\* followed by the record's status line, with no effect on the CSV file, the
\* worksheet, the market index, the tick counter or the next position of the loop
C13_AlertIffPrimary == [](C13_AlertState) /\ [][C13_AlertStep]_vars

\* two records of one run, the first above 1.00 and not alerted, the second alerted
C13_Witness ==
    /\ Len(RunRows) = 2
    /\ RunRows[1].Below_1_00 = "NO"
    /\ RunRows[2].Below_1_00 = "YES"
    /\ Count("alert") = 1
    /\ Count("status_ok") = 2
    /\ out[Len(out) - 1] = AlertLine(RunRows[2])

(***************************************************************************)
(* The threshold set of config.json against record_data and the header of  *)
(* setup_csv: json.load returns whatever names and levels the file holds,  *)
(* record_data reads the three keys it names.  The state is the one after  *)
(* construction with a fresh CSV file.                                     *)
(***************************************************************************)
ShapedThresholds ==
    {DefaultThresholds,
     [tight |-> 98000],
     [primary |-> 100000, secondary |-> 95000],
     [primary |-> 100000, secondary |-> 95000, tertiary |-> 90000, floor |-> 80000]}

\* the keys record_data subscripts self.config['thresholds'] with
ThresholdKeys == {"primary", "secondary", "tertiary"}

\* where the process is after thresholds[...] raised KeyError in record_data
AfterKeyError == "Crashed"

InitThresholds ==
    /\ config \in [markets : {<<MarketA>>}, thresholds : ShapedThresholds,
                   use_google_sheets : {FALSE}]
    /\ GSHEETS_AVAILABLE = FALSE
    /\ csvExists = TRUE
    /\ csv = SetupCsvRows(FALSE, <<>>)
    /\ sheetExists = FALSE
    /\ sheet = <<>>
    /\ gsheet = "None"
    /\ pc = "Eval"
    /\ iteration = 1
    /\ mi = 1
    /\ fetched = NoPrices
    /\ row = NoRow
    /\ out = <<>>
    /\ now = 0
    /\ run = 1
    /\ accepted = <<>>
    /\ attempts = <<>>
    /\ csvBase = 1
    /\ sheetBase = 0
    /\ tickFetch = <<>>
    /\ fetches = 0

\* record_data up to the row, the three keys being there
RecordDataBuildsRow ==
    /\ pc = "Eval"
    /\ ThresholdKeys \subseteq DOMAIN config.thresholds
    /\ \E y \in EvalPrices, n \in EvalPrices :
         /\ fetched' = <<y, n>>
         /\ row' = MakeRow(now, config.markets[mi], y, n, config.thresholds)
    /\ UNCHANGED <<config, GSHEETS_AVAILABLE, csvExists, csv, sheetExists, sheet, gsheet, pc,
                   iteration, mi, out, now, run, accepted, attempts, csvBase, sheetBase,
                   tickFetch, fetches>>

\* record_data with one of the three keys missing: KeyError, caught nowhere
RecordDataKeyError ==
    /\ pc = "Eval"
    /\ ~(ThresholdKeys \subseteq DOMAIN config.thresholds)
    /\ \E y \in EvalPrices, n \in EvalPrices : fetched' = <<y, n>>
    /\ pc' = AfterKeyError
    /\ UNCHANGED <<config, GSHEETS_AVAILABLE, csvExists, csv, sheetExists, sheet, gsheet,
                   iteration, mi, row, out, now, run, accepted, attempts, csvBase, sheetBase,
                   tickFetch, fetches>>

NextThresholds ==
    \/ RecordDataBuildsRow
    \/ RecordDataKeyError

SpecThresholds == InitThresholds /\ [][NextThresholds]_vars

\* the columns and the row fields that follow the seven fixed ones
BooleanColumns(header) == SubSeq(header.cols, 8, Len(header.cols))

BooleanFields(r) ==
    DOMAIN r \ {"Timestamp_UTC", "Market_ID", "Market_Name", "YES_Price", "NO_Price",
                "Sum", "Gap_From_One"}

(***************************************************************************)
(* C14.  Whatever the names and the number of the configured thresholds,   *)
(* the header has one boolean column for each of them, every row one       *)
(* boolean for each of them, and record_data does not fail: when it has    *)
(* been called, the process has not crashed and the counts agree.          *)
(***************************************************************************)
C14_BooleanPerThreshold ==
    fetched # NoPrices =>
        /\ pc # "Crashed"
        /\ Len(BooleanColumns(csv[1])) = Cardinality(DOMAIN config.thresholds)
        /\ Cardinality(BooleanFields(row)) = Cardinality(DOMAIN config.thresholds)

(***************************************************************************)
(* C15.  The loop runs until it is cancelled: once the first tick has      *)
(* started, the process is in the loop or has stopped on Ctrl+C, the stop  *)
(* message its last output; it has no other way to end.                    *)
(***************************************************************************)
C15_StoppedOnlyTerminal ==
    (iteration >= 1 /\ pc \notin LoopPcs)
        => (pc = "Stopped" /\ out[Len(out)].kind = "stopped")

(***************************************************************************)
(* C16.  The fields of a row agree at four fractional digits: the gap is   *)
(* 1.0000 minus the Sum field, the Sum field is yes_price + no_price       *)
(* rounded to four digits (either neighbour when the fifth digit is a 5),  *)
(* and each threshold column is YES exactly when yes_price + no_price is   *)
(* below the configured threshold.                                         *)
(***************************************************************************)
C16_PresentedFieldsConsistent ==
    row # NoRow =>
        LET s == fetched[1] + fetched[2]
        IN  /\ Signed(row.Gap_From_One) = Scale \div 10 - Signed(row.Sum)
            /\ s % 10 # 5 => Signed(row.Sum) = (s + 5) \div 10
            /\ s % 10 = 5 => Signed(row.Sum) \in {s \div 10, s \div 10 + 1}
            /\ row.Below_1_00 = YesNo(s < config.thresholds.primary)
            /\ row.Below_0_95 = YesNo(s < config.thresholds.secondary)
            /\ row.Below_0_90 = YesNo(s < config.thresholds.tertiary)

(***************************************************************************)
(* C17.  The tick counter: the k-th "Iteration" line of a run carries k,   *)
(* the counter is the number of ticks started, at least 1 inside a tick;   *)
(* within a run it changes only at the top of the loop, by one.  Nothing   *)
(* else reads it: every tick fetches every market, a row is made of the    *)
(* timestamp, the market, the prices and the thresholds, the sleep lasts   *)
(* the polling interval and is followed by the next tick, and the process  *)
(* stops only on Ctrl+C, whatever the counter.                             *)
(***************************************************************************)
IsIterationLine(e) == e.kind = "iteration"

IterationLines == SelectSeq(out, IsIterationLine)

C17_CounterState ==
    /\ Len(IterationLines) = iteration
    /\ \A k \in 1..Len(IterationLines) : IterationLines[k].iteration = k
    /\ pc \in {"Fetch", "Write", "Mirror", "Alert", "Status", "Sleep"} => iteration >= 1
    /\ pc = "Sleep" => Len(tickFetch) = Len(config.markets)
    /\ \A i \in 1..Len(accepted) :
         accepted[i].row = MakeRow(accepted[i].row.Timestamp_UTC,
                                   config.markets[accepted[i].mi],
                                   accepted[i].yes, accepted[i].no, config.thresholds)

C17_CounterStep ==
    /\ run' = run =>
         /\ iteration' \in {iteration, iteration + 1}
         /\ iteration' = iteration + 1 <=> (pc = "Tick" /\ pc' # "Stopped")
    /\ (pc = "Tick" /\ pc' # "Stopped") => (pc' = "Fetch" /\ mi' = 1)
    /\ (pc = "Sleep" /\ pc' # "Stopped") => (pc' = "Tick" /\ now' = now + PollingInterval)
    /\ pc' = "Stopped" => (pc \in LoopPcs /\ out' = Append(out, [kind |-> "stopped"]))

\* C17: the counter is 1 in the first tick and goes up by exactly one at the start of
\* every later tick, never down, and neither the fetches, the rows, the sleep nor
\* the stop depend on it
C17_TickCounter == [](C17_CounterState) /\ [][C17_CounterStep]_vars

\* the third tick has started after two ticks that each recorded a row
C17_Witness ==
    /\ iteration = 3
    /\ pc = "Fetch"
    /\ Len(IterationLines) = 3
    /\ IterationLines[1].iteration = 1
    /\ IterationLines[3].iteration = 3
    /\ Len(RunRows) = 2
    /\ now = 2 * PollingInterval

(***************************************************************************)
(* C18.  Append order is observation order: the rows a run has written are *)
(* in the CSV file in the order of (tick, position of the market in the    *)
(* configuration), strictly, so that a tick and a market have at most one  *)
(* row and no row of a later tick stands before a row of an earlier one.   *)
(***************************************************************************)
RunRecords == {i \in 1..Len(accepted) : accepted[i].run = run}

ObservedBefore(a, b) == a.tick < b.tick \/ (a.tick = b.tick /\ a.mi < b.mi)

C18_AppendOrder ==
    /\ Cardinality(RunRecords) = Len(RunRows)
    /\ \A i \in RunRecords :
         /\ i + 1 > csvBase
         /\ i + 1 <= Len(csv)
         /\ csv[i + 1] = accepted[i].row
         /\ csv[i + 1].Market_ID = config.markets[accepted[i].mi].id
         /\ accepted[i].tick \in 1..iteration
    /\ \A i, j \in RunRecords : i < j => ObservedBefore(accepted[i], accepted[j])

\* the three markets of tick 1 and the first of tick 2, in that order in the file
C18_Witness ==
    /\ Len(RunRows) = 4
    /\ Len(accepted) = 4
    /\ <<accepted[1].tick, accepted[2].tick, accepted[3].tick, accepted[4].tick>>
          = <<1, 1, 1, 2>>
    /\ <<RunRows[1].Market_Name, RunRows[2].Market_Name, RunRows[3].Market_Name,
         RunRows[4].Market_Name>> = <<"A", "B", "C", "A">>
    /\ RunRows[4].Timestamp_UTC > RunRows[3].Timestamp_UTC

(***************************************************************************)
(* C19.  The order within one record: CSV append, mirror attempt, alert,   *)
(* status line.  The alert and the success status line of a record are     *)
(* printed with its row already the last of the CSV file and its mirror    *)
(* attempt made; the k-th success line of a run is that of its k-th row,   *)
(* the k-th alert that of its k-th row below the primary threshold, with   *)
(* the sum and the gap of the row, whether the mirror took the row or not. *)
(***************************************************************************)
IsStatusOk(e) == e.kind = "status_ok"

IsAlert(e) == e.kind = "alert"

IsBelowPrimary(r) == r.Below_1_00 = "YES"

StatusLine(r) ==
    [kind |-> "status_ok", market |-> r.Market_Name, sum |-> r.Sum, gap |-> r.Gap_From_One]

StatusOkLines == SelectSeq(out, IsStatusOk)

AlertLines == SelectSeq(out, IsAlert)

RowsBelowPrimary == SelectSeq(RunRows, IsBelowPrimary)

C19_OrderState ==
    /\ Len(StatusOkLines) <= Len(RunRows)
    /\ \A k \in 1..Len(StatusOkLines) : StatusOkLines[k] = StatusLine(RunRows[k])
    /\ Len(AlertLines) <= Len(RowsBelowPrimary)
    /\ \A k \in 1..Len(AlertLines) : AlertLines[k] = AlertLine(RowsBelowPrimary[k])
    /\ pc \in {"Tick", "Fetch", "Write", "Sleep", "Crashed"}
          => /\ Len(StatusOkLines) = Len(RunRows)
             /\ Len(AlertLines) = Len(RowsBelowPrimary)
    /\ gsheet # "None" => Len(StatusOkLines) <= Len(attempts)

C19_OrderStep ==
    /\ (pc = "Write" /\ pc' \notin {"Stopped", "Crashed"})
          => /\ pc' = "Mirror"
             /\ csv' = Append(csv, row')
             /\ out' = out
             /\ attempts' = attempts
    /\ (pc = "Mirror" /\ pc' # "Stopped")
          => /\ pc' = "Alert"
             /\ csv' = csv
             /\ csv[Len(csv)] = row
             /\ out' \in {out, Append(out, [kind |-> "mirror_error"])}
             /\ gsheet # "None" => Len(attempts') = Len(attempts) + 1
    /\ (pc = "Alert" /\ pc' # "Stopped")
          => /\ pc' = "Status"
             /\ csv[Len(csv)] = row
             /\ gsheet # "None"
                   => (Len(attempts) = Len(RunRows) /\ attempts[Len(attempts)].row = row)
             /\ out' \in {out, Append(out, AlertLine(row))}
    /\ (pc = "Status" /\ fetched # NoPrices /\ pc' # "Stopped")
          => /\ csv[Len(csv)] = row
             /\ gsheet # "None" => Len(attempts) = Len(RunRows)
             /\ out' = Append(out, StatusLine(row))

\* C19: a record is appended to the CSV file, then offered to the mirror, then alerted,
\* then reported; an alert or success line is never printed for a row that is not in
\* the CSV file, and both carry the values of the row whatever the mirror answered
C19_RecordStepOrder == [](C19_OrderState) /\ [][C19_OrderStep]_vars

\* two records of equal prices, the mirror refused the first and took the second:
\* the same alert and the same status line for both
C19_Witness ==
    /\ Len(attempts) = 2
    /\ ~attempts[1].ok
    /\ attempts[2].ok
    /\ Len(AlertLines) = 2
    /\ AlertLines[1] = AlertLines[2]
    /\ Len(StatusOkLines) = 2
    /\ StatusOkLines[1] = StatusOkLines[2]
    /\ StatusOkLines[2].gap = RunRows[2].Gap_From_One
    /\ Len(RunMirrorRows) = 1

====
